---- MODULE Spec2Model ----
(***************************************************************************)
(* Model of the silence-removal pipeline of src/remove-silence-v2.py       *)
(* (detect_silence, generate_silence_report, remove_silence,               *)
(* reencode_video, process_video, process_folder).                         *)
(*                                                                         *)
(* Times are whole units (the code holds Python floats; only their order   *)
(* matters to the code).  Python's None is the value None below.           *)
(***************************************************************************)
EXTENDS Integers, Sequences, FiniteSets, TLC

\* ------------------------------------------------------------------ bounds
MaxTime == 5
MaxMarkers == 3
MaxIntervals == 2
MaxBatchMarkers == 2
MaxBatchTime == 1
MaxFiles == 2

\* ------------------------------------------------------- values of the code
\* Python's None (an absent start or duration).
None == -1
\* A marker whose text after the colon does not match [0-9\.]+ (for instance
\* "silence_start: -0.01"): re.findall returns nothing for it.
NoMatch == -2
\* A marker whose text matches [0-9\.]+ but is no float ("1.2.3", "."):
\* float() raises ValueError on it.
BadFloat == -3

Times == 0..MaxTime
Tokens == Times \cup {NoMatch, BadFloat}
MarkerKinds == {"silence_start", "silence_end", "silence_duration"}
Markers == [kind : MarkerKinds, tok : Tokens]

Min(a, b) == IF a < b THEN a ELSE b

\* All sequences over S of length at most n.
SeqsUpTo(S, n) == UNION {[1..m -> S] : m \in 0..n}

\* ------------------------------------------------------ detect_silence
\* re.findall(r"<kind>:\s*([0-9\.]+)", stderr): the captured texts, in order
\* of appearance, of the markers of that kind whose value the pattern matches.
RECURSIVE FindAll(_, _)
FindAll(kind, text) ==
    IF text = <<>> THEN <<>>
    ELSE LET m == Head(text)
             rest == FindAll(kind, Tail(text))
         IN IF m.kind = kind /\ m.tok # NoMatch THEN <<m.tok>> \o rest ELSE rest

\* Variant of ParseIntervals: the loop runs over range(len(starts)).
ParseIntervals_PerStart(text) ==
    LET starts == FindAll("silence_start", text)
        ends == FindAll("silence_end", text)
        durs == FindAll("silence_duration", text)
    IN [i \in 1..Len(starts) |->
          [start |-> starts[i],
           end |-> IF i <= Len(ends) THEN ends[i] ELSE None,
           duration |-> IF i <= Len(durs) THEN durs[i] ELSE None]]

\* The interval list built by the loop over range(len(ends)).
ParseIntervals(text) ==
    LET starts == FindAll("silence_start", text)
        ends == FindAll("silence_end", text)
        durs == FindAll("silence_duration", text)
    IN [i \in 1..Len(ends) |->
          [start |-> IF i <= Len(starts) THEN starts[i] ELSE None,
           end |-> ends[i],
           duration |-> IF i <= Len(durs) THEN durs[i] ELSE None]]

\* float() is applied to ends[i], to starts[i] when i < len(starts) and to
\* durs[i] when i < len(durs); it raises ValueError on a text that is no float.
FloatRaises(text) ==
    \E i \in 1..Len(ParseIntervals(text)) :
        \/ ParseIntervals(text)[i].start = BadFloat
        \/ ParseIntervals(text)[i].end = BadFloat
        \/ ParseIntervals(text)[i].duration = BadFloat

\* -------------------------------------------------------------- paths
\* A path is the sequence of the pieces of its file name; the last piece is
\* the extension when it begins with a dot.
Extensions == {".mp4", ".MOV", ".mkv", ".txt"}
HasExt(p) == Len(p) > 0 /\ p[Len(p)] \in Extensions
\* os.path.splitext
SplitBase(p) == IF HasExt(p) THEN SubSeq(p, 1, Len(p) - 1) ELSE p
SplitExt(p) == IF HasExt(p) THEN <<p[Len(p)]>> ELSE <<>>
\* Variant of Lower: the extension is compared as it is spelt.
Lower_Identity(e) == e

\* str.lower() on the extensions of the model
Lower(e) == IF e = ".MOV" THEN ".mov" ELSE e
\* file.lower().endswith(('.mp4', '.mov', '.mkv'))
EndsWithVideoExt(p) == HasExt(p) /\ Lower(p[Len(p)]) \in {".mp4", ".mov", ".mkv"}

\* f"{base}_removed_silence{ext}"
RemovedSilencePath(p) == SplitBase(p) \o <<"_removed_silence">> \o SplitExt(p)
\* f"{base}_silence_report.txt"
ReportPath(p) == SplitBase(p) \o <<"_silence_report", ".txt">>

\* Directory entries of the model: name and whether os.path.isfile holds.
Entries ==
    { [name |-> <<"a", ".mp4">>, isfile |-> TRUE],
      [name |-> <<"b", ".MOV">>, isfile |-> TRUE],
      [name |-> <<"c", ".mkv">>, isfile |-> TRUE],
      [name |-> <<"n", ".txt">>, isfile |-> TRUE],
      [name |-> <<"d", ".mkv">>, isfile |-> FALSE] }

\* ---------------------------------------------------------- filter graph
\* One operation of filter_complex.  A trim reads src, keeps [start, end)
\* (end = None: no end bound), resets timestamps and writes label out; a
\* concat reads the labels ins, with operand count n, and writes out.
TrimNode(op, src, s, e, reset, out) ==
    [op |-> op, src |-> src, start |-> s, end |-> e, reset |-> reset,
     ins |-> <<>>, n |-> 0, out |-> out]
ConcatNode(ins, n, out) ==
    [op |-> "concat", src |-> <<"", 0>>, start |-> None, end |-> None,
     reset |-> "", ins |-> ins, n |-> n, out |-> out]

VARIABLES
    listing,         \* os.listdir(folder_path), evaluated once
    idx,             \* position of the for loop of process_folder
    pc,              \* where the single thread of control stands
    stderr,          \* process.stderr of the silencedetect run
    silence_info,    \* the interval list of the file in flight
    silence_starts,  \* remove_silence: starts that are not None
    silence_ends,    \* remove_silence: all ends
    k,               \* remove_silence: next pair of the zip
    last_end,        \* remove_silence: the cursor
    segment_count,   \* remove_silence
    filter_complex,  \* remove_silence: the graph built so far
    cleaned,         \* process_video: the path remove_silence returned
    cmds,            \* every subprocess.run of the pass, in order
    fs,              \* the files that exist, with what they hold
    exc,             \* the exception that left process_folder, if any
    preset,          \* the preset name given to process_folder
    settings         \* the settings dict of the latest reencode_video call

vars == <<listing, idx, pc, stderr, silence_info, silence_starts, silence_ends,
          k, last_end, segment_count, filter_complex, cleaned, cmds, fs, exc,
          preset, settings>>

locals == <<stderr, silence_info, silence_starts, silence_ends, k, last_end,
            segment_count, filter_complex, cleaned>>

\* ------------------------------------------------------------- presets
\* The names process_folder may be given: the four the if/elif chain knows,
\* the default "tiktok" and one more name it does not know.
PresetNames == {"tiktok", "highest", "youtube", "facebook", "instagram", "other"}

\* The settings dict of reencode_video before any update.
BaseSettings ==
    [crf |-> "20", scale |-> "1080:1920", preset |-> "slow",
     pix_fmt |-> "yuv420p", bitrate_audio |-> "128k", timescale |-> "30000"]

\* No reencode_video call has built a settings dict yet.
NoSettings == [f \in DOMAIN BaseSettings |-> ""]

\* Variant of Settings: a name the chain does not know gets no settings.
Settings_NoFallback(name) ==
    IF name = "highest"
    THEN [BaseSettings EXCEPT !.crf = "18", !.preset = "veryslow", !.timescale = "90000"]
    ELSE IF name = "youtube"
    THEN [BaseSettings EXCEPT !.scale = "1920:1080", !.crf = "21"]
    ELSE IF name = "facebook"
    THEN [BaseSettings EXCEPT !.crf = "22", !.scale = "1080:1350"]
    ELSE IF name = "instagram"
    THEN [BaseSettings EXCEPT !.scale = "1080:1350", !.crf = "21"]
    ELSE NoSettings

\* Variant of Settings: the dict of a known name replaces the base dict
\* instead of updating it.
Settings_Replaced(name) ==
    IF name = "highest"
    THEN [NoSettings EXCEPT !.crf = "18", !.preset = "veryslow", !.timescale = "90000"]
    ELSE IF name = "youtube"
    THEN [NoSettings EXCEPT !.scale = "1920:1080", !.crf = "21"]
    ELSE IF name = "facebook"
    THEN [NoSettings EXCEPT !.crf = "22", !.scale = "1080:1350"]
    ELSE IF name = "instagram"
    THEN [NoSettings EXCEPT !.scale = "1080:1350", !.crf = "21"]
    ELSE BaseSettings

\* The settings after the if/elif chain of reencode_video.
Settings(name) ==
    IF name = "highest"
    THEN [BaseSettings EXCEPT !.crf = "18", !.preset = "veryslow", !.timescale = "90000"]
    ELSE IF name = "youtube"
    THEN [BaseSettings EXCEPT !.scale = "1920:1080", !.crf = "21"]
    ELSE IF name = "facebook"
    THEN [BaseSettings EXCEPT !.crf = "22", !.scale = "1080:1350"]
    ELSE IF name = "instagram"
    THEN [BaseSettings EXCEPT !.scale = "1080:1350", !.crf = "21"]
    ELSE BaseSettings

\* Variant of Resolve: one dict is shared by all calls, and each call applies
\* its update to what the call before left in it.
Resolve_Shared(prev, name) ==
    [f \in DOMAIN BaseSettings |->
        IF Settings(name)[f] # BaseSettings[f] THEN Settings(name)[f]
        ELSE IF prev = NoSettings THEN BaseSettings[f] ELSE prev[f]]

\* The dict a call of reencode_video works on: settings is a local built
\* from the literal at every call, whatever dict prev an earlier call built.
Resolve(prev, name) == Settings(name)

\* Variant of ReencodePath: the output keeps the extension of its input.
ReencodePath_KeepsExt(p, name) == SplitBase(p) \o <<"_", name>> \o SplitExt(p)

\* f"{base}_{preset}.mp4"
ReencodePath(p, name) == SplitBase(p) \o <<"_", name, ".mp4">>

\* ----------------------------------------------------------- the state
\* One subprocess.run: the program, what it is run for, its input and
\* output paths, the graph or settings handed over, and how it ended
\* ("ok": status 0, "fail": non-zero status, "oserror": not launched).
Cmd(tool, stage, input, output, arg, rc) ==
    [tool |-> tool, stage |-> stage, input |-> input, output |-> output,
     arg |-> arg, rc |-> rc]

Outcomes == {"ok", "fail", "oserror"}

\* What a file holds: the source it derives from and the form it is in.
Content(of, form) == [of |-> of, form |-> form]

\* The path of the file in flight: os.path.join(folder_path, file).
input_file == listing[idx].name

NoLocals ==
    /\ stderr = <<>>
    /\ silence_info = <<>>
    /\ silence_starts = <<>>
    /\ silence_ends = <<>>
    /\ k = 0
    /\ last_end = 0
    /\ segment_count = 0
    /\ filter_complex = <<>>
    /\ cleaned = <<>>

\* The locals of process_video and its callees go out of scope.
DropLocals ==
    /\ stderr' = <<>>
    /\ silence_info' = <<>>
    /\ silence_starts' = <<>>
    /\ silence_ends' = <<>>
    /\ k' = 0
    /\ last_end' = 0
    /\ segment_count' = 0
    /\ filter_complex' = <<>>
    /\ cleaned' = <<>>

\* Sequences of distinct directory entries.
Listings ==
    {l \in SeqsUpTo(Entries, MaxFiles) :
        \A i, j \in 1..Len(l) : i # j => l[i].name # l[j].name}

InitialFs(l) ==
    [p \in {l[i].name : i \in {j \in 1..Len(l) : l[j].isfile}} |->
        Content(p, "original")]

\* The preset names of the folder pass: the default, which the chain does
\* not know, and one it knows.
FolderPresets == {"tiktok", "highest"}

\* process_folder(folder_path, preset) is called.
Init ==
    /\ listing \in Listings
    /\ preset \in FolderPresets
    /\ idx = 1
    /\ pc = "for"
    /\ NoLocals
    /\ cmds = <<>>
    /\ fs = InitialFs(listing)
    /\ exc = "none"
    /\ settings = NoSettings

\* An exception that process_folder's except clause does not name leaves
\* process_folder: the pass ends.
Propagate(e) ==
    /\ pc' = "crashed"
    /\ exc' = e

\* Variant of Caught: the file that failed is tried again.
Caught_Retries ==
    /\ pc' = "detect"
    /\ DropLocals
    /\ UNCHANGED <<idx, exc>>

\* Variant of Caught: the first failure ends the pass.
Caught_EndsPass ==
    /\ pc' = "done"
    /\ DropLocals
    /\ UNCHANGED <<idx, exc>>

\* except subprocess.CalledProcessError: print, then the next directory entry.
Caught ==
    /\ pc' = "for"
    /\ idx' = idx + 1
    /\ DropLocals
    /\ UNCHANGED exc

\* The file system with path p holding c.
Put(f, p, c) == [q \in DOMAIN f \cup {p} |-> IF q = p THEN c ELSE f[q]]

\* The outcomes a program reading path p can have: it cannot succeed on a
\* file that does not exist.
OutcomesOn(p) == IF p \in DOMAIN fs THEN Outcomes ELSE Outcomes \ {"ok"}

\* ------------------------------------------------------- process_folder
\* Variant of Eligible: an entry whose final output exists is passed over.
Eligible_SkipsDone(e) ==
    /\ e.isfile
    /\ EndsWithVideoExt(e.name)
    /\ ReencodePath(RemovedSilencePath(e.name), preset) \notin DOMAIN fs

\* os.path.isfile(full_path) and file.lower().endswith(('.mp4', '.mov', '.mkv'))
Eligible(e) == e.isfile /\ EndsWithVideoExt(e.name)

\* for file in os.listdir(folder_path): an entry the if rejects.
for_skip ==
    /\ pc = "for"
    /\ idx <= Len(listing)
    /\ ~Eligible(listing[idx])
    /\ idx' = idx + 1
    /\ UNCHANGED <<listing, pc, locals, cmds, fs, exc, preset, settings>>

\* An entry the if accepts: process_video(full_path, preset) is called.
for_body ==
    /\ pc = "for"
    /\ idx <= Len(listing)
    /\ Eligible(listing[idx])
    /\ pc' = "detect"
    /\ UNCHANGED <<listing, idx, locals, cmds, fs, exc, preset, settings>>

\* The listing is exhausted: process_folder returns.
for_end ==
    /\ pc = "for"
    /\ idx > Len(listing)
    /\ pc' = "done"
    /\ UNCHANGED <<listing, idx, locals, cmds, fs, exc, preset, settings>>

\* ------------------------------------------------------- detect_silence
\* subprocess.run without check=True, then the three findall and the loop.
\* Texts is the set of diagnostic texts the engine may print.
detect_silence(Texts) ==
    /\ pc = "detect"
    /\ \E rc \in OutcomesOn(input_file), text \in Texts :
        /\ cmds' = Append(cmds, Cmd("ffmpeg", "silencedetect", input_file, <<>>, <<>>, rc))
        /\ IF rc = "oserror"
           THEN /\ Propagate("FileNotFoundError")
                /\ UNCHANGED <<stderr, silence_info>>
           ELSE /\ stderr' = text
                /\ IF FloatRaises(text)
                   THEN /\ Propagate("ValueError")
                        /\ UNCHANGED silence_info
                   ELSE /\ silence_info' = ParseIntervals(text)
                        /\ pc' = "report"
                        /\ UNCHANGED exc
    /\ UNCHANGED <<listing, idx, silence_starts, silence_ends, k, last_end,
                   segment_count, filter_complex, cleaned, fs, preset, settings>>

\* ---------------------------------------------- generate_silence_report
generate_silence_report ==
    /\ pc = "report"
    /\ fs' = Put(fs, ReportPath(input_file), Content(input_file, "report"))
    /\ pc' = "remove"
    /\ UNCHANGED <<listing, idx, locals, cmds, exc, preset, settings>>

\* ------------------------------------------------------- remove_silence
output_file == RemovedSilencePath(input_file)

\* [s['start'] for s in silence_info if s['start'] is not None]
RECURSIVE StartsOf(_)
StartsOf(info) ==
    IF info = <<>> THEN <<>>
    ELSE IF Head(info).start # None
         THEN <<Head(info).start>> \o StartsOf(Tail(info))
         ELSE StartsOf(Tail(info))

\* [s['end'] for s in silence_info]
EndsOf(info) == [i \in 1..Len(info) |-> info[i].end]

\* Variant of PassThrough: a list without any known start is copied too.
PassThrough_NoKnownStart(info) == StartsOf(info) = <<>>

\* if not silence_info
PassThrough(info) == info = <<>>

\* Variant of remove_silence_copy: the source path is returned instead of
\* the path of the copy.
remove_silence_copy_ReturnsSource ==
    /\ pc = "remove"
    /\ silence_info = <<>>
    /\ \E rc \in OutcomesOn(input_file) :
        /\ cmds' = Append(cmds, Cmd("cp", "copy", input_file, output_file, <<>>, rc))
        /\ IF rc = "oserror"
           THEN /\ Propagate("FileNotFoundError")
                /\ UNCHANGED <<cleaned, fs>>
           ELSE /\ fs' = IF rc = "ok" THEN Put(fs, output_file, fs[input_file]) ELSE fs
                /\ cleaned' = input_file
                /\ pc' = "encode"
                /\ UNCHANGED exc
    /\ UNCHANGED <<listing, idx, stderr, silence_info, silence_starts, silence_ends,
                   k, last_end, segment_count, filter_complex, preset, settings>>

\* if not silence_info: cp the source to output_file (no check=True) and
\* return output_file.
remove_silence_copy ==
    /\ pc = "remove"
    /\ PassThrough(silence_info)
    /\ \E rc \in OutcomesOn(input_file) :
        /\ cmds' = Append(cmds, Cmd("cp", "copy", input_file, output_file, <<>>, rc))
        /\ IF rc = "oserror"
           THEN /\ Propagate("FileNotFoundError")
                /\ UNCHANGED <<cleaned, fs>>
           ELSE /\ fs' = IF rc = "ok" THEN Put(fs, output_file, fs[input_file]) ELSE fs
                /\ cleaned' = output_file
                /\ pc' = "encode"
                /\ UNCHANGED exc
    /\ UNCHANGED <<listing, idx, stderr, silence_info, silence_starts, silence_ends,
                   k, last_end, segment_count, filter_complex, preset, settings>>

\* Variant of remove_silence_begin: filter_complex is not emptied, it goes
\* on from the graph of the latest graph run of the pass.
remove_silence_begin_KeepsGraph ==
    /\ pc = "remove"
    /\ ~PassThrough(silence_info)
    /\ silence_starts' = StartsOf(silence_info)
    /\ silence_ends' = EndsOf(silence_info)
    /\ filter_complex' =
          LET g == SelectSeq(cmds, LAMBDA c : c.stage = "graph")
          IN IF g = <<>> THEN <<>> ELSE g[Len(g)].arg.graph
    /\ last_end' = 0
    /\ segment_count' = 0
    /\ k' = 1
    /\ pc' = "loop"
    /\ UNCHANGED <<listing, idx, stderr, silence_info, cleaned, cmds, fs, exc, preset, settings>>

\* A non-empty list: the two comprehensions and the initial values of the loop.
remove_silence_begin ==
    /\ pc = "remove"
    /\ ~PassThrough(silence_info)
    /\ silence_starts' = StartsOf(silence_info)
    /\ silence_ends' = EndsOf(silence_info)
    /\ filter_complex' = <<>>
    /\ last_end' = 0
    /\ segment_count' = 0
    /\ k' = 1
    /\ pc' = "loop"
    /\ UNCHANGED <<listing, idx, stderr, silence_info, cleaned, cmds, fs, exc, preset, settings>>

\* The number of pairs zip(silence_starts, silence_ends) yields.
ZipLen(a, b) == Min(Len(a), Len(b))

\* Variant of EmitsSegment: a start at the cursor emits a segment too.
EmitsSegment_AtCursor(cursor, start) == cursor <= start

\* if last_end < start
EmitsSegment(cursor, start) == cursor < start

\* Variant of NextCursor: the cursor is left where it stands.
NextCursor_Keeps(cursor, start, end) == cursor

\* Variant of NextCursor: the cursor is moved to the interval's start.
NextCursor_ToStart(cursor, start, end) == start

\* last_end = end, at the end of the loop body
NextCursor(cursor, start, end) == end

\* Variant of SegmentNodes: the audio trim is given no end bound.
SegmentNodes_AudioOpen(s, e, n) ==
    << TrimNode("trim", <<"0:v", 0>>, s, e, "setpts", <<"v", n>>),
       TrimNode("atrim", <<"0:a", 0>>, s, None, "asetpts", <<"a", n>>) >>

\* The two trims of one segment, as the loop body appends them.
SegmentNodes(s, e, n) ==
    << TrimNode("trim", <<"0:v", 0>>, s, e, "setpts", <<"v", n>>),
       TrimNode("atrim", <<"0:a", 0>>, s, e, "asetpts", <<"a", n>>) >>

\* One iteration of for start, end in zip(silence_starts, silence_ends).
remove_silence_iter ==
    /\ pc = "loop"
    /\ k <= ZipLen(silence_starts, silence_ends)
    /\ LET start == silence_starts[k]
           end == silence_ends[k]
       IN /\ IF EmitsSegment(last_end, start)
             THEN /\ filter_complex' =
                        filter_complex \o SegmentNodes(last_end, start, segment_count)
                  /\ segment_count' = segment_count + 1
             ELSE UNCHANGED <<filter_complex, segment_count>>
          /\ last_end' = NextCursor(last_end, start, end)
    /\ k' = k + 1
    /\ UNCHANGED <<listing, idx, pc, stderr, silence_info, silence_starts,
                   silence_ends, cleaned, cmds, fs, exc, preset, settings>>

\* Variant of Labels: the indices are listed from the highest down.
Labels_Descending(c, n) == [i \in 1..n |-> <<c, n - i>>]

\* Variant of Labels: the indices run from 1 instead of 0.
Labels_FromOne(c, n) == [i \in 1..n |-> <<c, i>>]

\* "".join(f"[{c}{i}]" for i in range(segment_count + 1))
Labels(c, n) == [i \in 1..n |-> <<c, i - 1>>]

\* Variant of TrailingNodes: the trailing trims carry an end bound.
TrailingNodes_Bounded(cursor, n) ==
    SegmentNodes(cursor, cursor, n)
    \o << ConcatNode(Labels("v", n + 1), n + 1, <<"outv", 0>>),
          ConcatNode(Labels("a", n + 1), n + 1, <<"outa", 0>>) >>

\* Variant of TrailingNodes: the concats count segment_count operands.
TrailingNodes_CountsLoopOnly(cursor, n) ==
    SegmentNodes(cursor, None, n)
    \o << ConcatNode(Labels("v", n + 1), n, <<"outv", 0>>),
          ConcatNode(Labels("a", n + 1), n, <<"outa", 0>>) >>

\* After the loop: the trailing trims and the two concats.
TrailingNodes(cursor, n) ==
    SegmentNodes(cursor, None, n)
    \o << ConcatNode(Labels("v", n + 1), n + 1, <<"outv", 0>>),
          ConcatNode(Labels("a", n + 1), n + 1, <<"outa", 0>>) >>

\* The graph remove_silence builds for an interval list: the loop over
\* zip(starts, ends) from cursor cur with n segments emitted so far, and
\* the trailing nodes after it.
RECURSIVE PlanFrom(_, _, _, _)
PlanFrom(starts, ends, cur, n) ==
    IF starts = <<>> \/ ends = <<>> THEN TrailingNodes(cur, n)
    ELSE IF EmitsSegment(cur, Head(starts))
         THEN SegmentNodes(cur, Head(starts), n)
              \o PlanFrom(Tail(starts), Tail(ends),
                          NextCursor(cur, Head(starts), Head(ends)), n + 1)
         ELSE PlanFrom(Tail(starts), Tail(ends),
                       NextCursor(cur, Head(starts), Head(ends)), n)

GraphOf(info) == PlanFrom(StartsOf(info), EndsOf(info), 0, 0)

\* "-map", "[outv]", "-map", "[outa]"
OutputMaps == << <<"outv", 0>>, <<"outa", 0>> >>

remove_silence_build ==
    /\ pc = "loop"
    /\ k > ZipLen(silence_starts, silence_ends)
    /\ filter_complex' = filter_complex \o TrailingNodes(last_end, segment_count)
    /\ pc' = "run"
    /\ UNCHANGED <<listing, idx, stderr, silence_info, silence_starts, silence_ends,
                   k, last_end, segment_count, cleaned, cmds, fs, exc, preset, settings>>

\* subprocess.run(cmd, check=True); return output_file
remove_silence_run ==
    /\ pc = "run"
    /\ \E rc \in OutcomesOn(input_file) :
        /\ cmds' = Append(cmds, Cmd("ffmpeg", "graph", input_file, output_file,
                                    [graph |-> filter_complex, maps |-> OutputMaps],
                                    rc))
        /\ IF rc = "ok"
           THEN /\ fs' = Put(fs, output_file, Content(fs[input_file].of, "trimmed"))
                /\ cleaned' = output_file
                /\ pc' = "encode"
                /\ UNCHANGED <<idx, exc, stderr, silence_info, silence_starts,
                               silence_ends, k, last_end, segment_count, filter_complex>>
           ELSE IF rc = "fail"
           THEN /\ Caught
                /\ UNCHANGED fs
           ELSE /\ Propagate("FileNotFoundError")
                /\ UNCHANGED <<idx, fs, locals>>
    /\ UNCHANGED <<listing, preset, settings>>

\* ------------------------------------------------------- reencode_video
\* subprocess.run(cmd, check=True) on the path remove_silence returned; on
\* success process_video returns and the for loop takes the next entry.
reencode_video ==
    /\ pc = "encode"
    /\ \E rc \in OutcomesOn(cleaned) :
        /\ settings' = Resolve(settings, preset)
        /\ cmds' = Append(cmds, Cmd("ffmpeg", "encode", cleaned,
                                    ReencodePath(cleaned, preset), settings', rc))
        /\ IF rc = "ok"
           THEN /\ fs' = Put(fs, ReencodePath(cleaned, preset),
                             Content(fs[cleaned].of, "encoded"))
                /\ pc' = "for"
                /\ idx' = idx + 1
                /\ DropLocals
                /\ UNCHANGED exc
           ELSE IF rc = "fail"
           THEN /\ Caught
                /\ UNCHANGED fs
           ELSE /\ Propagate("FileNotFoundError")
                /\ UNCHANGED <<idx, fs, locals>>
    /\ UNCHANGED <<listing, preset>>

\* ------------------------------------------------------ specifications
\* The diagnostic texts of the batch specification.
BatchMarkers == {m \in Markers : m.tok <= MaxBatchTime}
BatchTexts == SeqsUpTo(BatchMarkers, MaxBatchMarkers)

detect_batch == detect_silence(BatchTexts)

\* The diagnostic texts of the folder pass, one of each kind the stages
\* tell apart: no marker; a marker without a value the pattern matches; a
\* value float() rejects; silence from time 0 (the loop emits no segment);
\* silence inside the file (the loop emits one segment).
Marker(kind, tok) == [kind |-> kind, tok |-> tok]
FolderTexts ==
    { <<>>,
      << Marker("silence_start", NoMatch) >>,
      << Marker("silence_end", BadFloat) >>,
      << Marker("silence_start", 0), Marker("silence_end", 1) >>,
      << Marker("silence_start", 1), Marker("silence_end", 2) >> }

detect_folder == detect_silence(FolderTexts)

Next ==
    \/ for_skip
    \/ for_body
    \/ for_end
    \/ detect_folder
    \/ generate_silence_report
    \/ remove_silence_copy
    \/ remove_silence_begin
    \/ remove_silence_iter
    \/ remove_silence_build
    \/ remove_silence_run
    \/ reencode_video

Spec == Init /\ [][Next]_vars

\* The pass under the scheduling of a single thread whose calls all return:
\* as long as a step can be taken, one is.
SpecLive == Init /\ [][Next]_vars /\ WF_vars(Next)

\* process_video on one file: the stages of a single eligible entry.
OneFile == << [name |-> <<"a", ".mp4">>, isfile |-> TRUE] >>

InitVideo ==
    /\ listing \in {<<e>> : e \in {x \in Entries : Eligible(x)}}
    /\ preset \in PresetNames
    /\ idx = 1
    /\ pc = "detect"
    /\ NoLocals
    /\ cmds = <<>>
    /\ fs = InitialFs(listing)
    /\ exc = "none"
    /\ settings = NoSettings

NextVideo ==
    \/ detect_batch
    \/ generate_silence_report
    \/ remove_silence_copy
    \/ remove_silence_begin
    \/ remove_silence_iter
    \/ remove_silence_build
    \/ remove_silence_run
    \/ reencode_video

SpecVideo == InitVideo /\ [][NextVideo]_vars

\* reencode_video alone, called on one source file after the other, each
\* call with a preset name of its own.
call_reencode ==
    /\ pc = "for"
    /\ idx <= Len(listing)
    /\ preset' \in PresetNames
    /\ cleaned' = listing[idx].name
    /\ pc' = "encode"
    /\ UNCHANGED <<listing, idx, stderr, silence_info, silence_starts,
                   silence_ends, k, last_end, segment_count, filter_complex,
                   cmds, fs, exc, settings>>

InitEncode ==
    /\ listing \in {l \in Listings : \A i \in 1..Len(l) : Eligible(l[i])}
    /\ preset = "tiktok"
    /\ idx = 1
    /\ pc = "for"
    /\ NoLocals
    /\ cmds = <<>>
    /\ fs = InitialFs(listing)
    /\ exc = "none"
    /\ settings = NoSettings

NextEncode ==
    \/ call_reencode
    \/ reencode_video

SpecEncode == InitEncode /\ [][NextEncode]_vars

\* A second pass of process_folder over a folder an earlier pass has been
\* through with success: the source is listed together with the report,
\* the intermediate file and the final file that pass wrote next to it.
SecondPassSource == <<"a", ".mp4">>
SecondPassPreset == "tiktok"
EarlierIntermediate == RemovedSilencePath(SecondPassSource)
EarlierFinal == ReencodePath(EarlierIntermediate, SecondPassPreset)

SecondPassFs ==
    [p \in {SecondPassSource, ReportPath(SecondPassSource),
            EarlierIntermediate, EarlierFinal} |->
        Content(SecondPassSource,
                IF p = SecondPassSource THEN "original"
                ELSE IF p = ReportPath(SecondPassSource) THEN "report"
                ELSE IF p = EarlierIntermediate THEN "trimmed"
                ELSE "encoded")]

\* os.listdir gives the four entries in any order.
SecondPassListings ==
    {l \in [1..4 -> {[name |-> p, isfile |-> TRUE] : p \in DOMAIN SecondPassFs}] :
        \A i, j \in 1..4 : i # j => l[i] # l[j]}

InitSecondPass ==
    /\ listing \in SecondPassListings
    /\ preset = SecondPassPreset
    /\ idx = 1
    /\ pc = "for"
    /\ NoLocals
    /\ cmds = <<>>
    /\ fs = SecondPassFs
    /\ exc = "none"
    /\ settings = NoSettings

NextSecondPass ==
    \/ for_skip
    \/ for_body
    \/ for_end
    \/ detect_folder
    \/ generate_silence_report
    \/ remove_silence_copy
    \/ remove_silence_begin
    \/ remove_silence_iter
    \/ remove_silence_build
    \/ remove_silence_run
    \/ reencode_video

SpecSecondPass == InitSecondPass /\ [][NextSecondPass]_vars

\* ------------------------------------------ main of detect-silence-v2.py
\* detect_silence, generate_silence_report and remove_silence of
\* detect-silence-v2.py are those of remove-silence-v2.py line for line;
\* its main loops over the folder without a try and without stage 2.

\* file_name.lower().endswith(('.wav', '.mp3', '.flac', '.mp4', '.mkv', '.mov', '.avi'))
EligibleMain(e) ==
    /\ e.isfile
    /\ HasExt(e.name)
    /\ Lower(e.name[Len(e.name)])
          \in {".wav", ".mp3", ".flac", ".mp4", ".mkv", ".mov", ".avi"}

main_skip ==
    /\ pc = "for"
    /\ idx <= Len(listing)
    /\ ~EligibleMain(listing[idx])
    /\ idx' = idx + 1
    /\ UNCHANGED <<listing, pc, locals, cmds, fs, exc, preset, settings>>

main_body ==
    /\ pc = "for"
    /\ idx <= Len(listing)
    /\ EligibleMain(listing[idx])
    /\ pc' = "detect"
    /\ UNCHANGED <<listing, idx, locals, cmds, fs, exc, preset, settings>>

\* The listing is exhausted: "All files processed."
main_end ==
    /\ pc = "for"
    /\ idx > Len(listing)
    /\ pc' = "done"
    /\ UNCHANGED <<listing, idx, locals, cmds, fs, exc, preset, settings>>

\* Variant of Escapes: the exception is caught and the loop goes on.
Escapes_Caught(e) == Caught

\* An exception raised in the loop body of main: nothing catches it.
Escapes(e) ==
    /\ Propagate(e)
    /\ UNCHANGED <<idx, locals>>

\* subprocess.run(cmd, check=True) of remove_silence, called from main.
main_remove_silence_run ==
    /\ pc = "run"
    /\ \E rc \in OutcomesOn(input_file) :
        /\ cmds' = Append(cmds, Cmd("ffmpeg", "graph", input_file, output_file,
                                    [graph |-> filter_complex, maps |-> OutputMaps],
                                    rc))
        /\ IF rc = "ok"
           THEN /\ fs' = Put(fs, output_file, Content(fs[input_file].of, "trimmed"))
                /\ cleaned' = output_file
                /\ pc' = "encode"
                /\ UNCHANGED <<idx, exc, stderr, silence_info, silence_starts,
                               silence_ends, k, last_end, segment_count, filter_complex>>
           ELSE IF rc = "fail"
           THEN /\ Escapes("CalledProcessError")
                /\ UNCHANGED fs
           ELSE /\ Escapes("FileNotFoundError")
                /\ UNCHANGED fs
    /\ UNCHANGED <<listing, preset, settings>>

\* remove_silence has returned output_file: "Silence removed" is printed
\* and the loop takes the next entry.
main_next ==
    /\ pc = "encode"
    /\ pc' = "for"
    /\ idx' = idx + 1
    /\ DropLocals
    /\ UNCHANGED <<listing, cmds, fs, exc, preset, settings>>

\* main has no preset; the variable keeps one value.
InitMain ==
    /\ listing \in Listings
    /\ preset = "tiktok"
    /\ idx = 1
    /\ pc = "for"
    /\ NoLocals
    /\ cmds = <<>>
    /\ fs = InitialFs(listing)
    /\ exc = "none"
    /\ settings = NoSettings

NextMain ==
    \/ main_skip
    \/ main_body
    \/ main_end
    \/ detect_folder
    \/ generate_silence_report
    \/ remove_silence_copy
    \/ remove_silence_begin
    \/ remove_silence_iter
    \/ remove_silence_build
    \/ main_remove_silence_run
    \/ main_next

SpecMain == InitMain /\ [][NextMain]_vars

\* detect_silence alone, on every diagnostic text of up to MaxMarkers markers.
AllTexts == SeqsUpTo(Markers, MaxMarkers)

detect_any == detect_silence(AllTexts)

InitParse ==
    /\ listing = OneFile
    /\ preset = "tiktok"
    /\ idx = 1
    /\ pc = "detect"
    /\ NoLocals
    /\ cmds = <<>>
    /\ fs = InitialFs(listing)
    /\ exc = "none"
    /\ settings = NoSettings

NextParse == detect_any

SpecParse == InitParse /\ [][NextParse]_vars

\* remove_silence alone, on every interval list of up to MaxIntervals
\* intervals: any start (or none), any end.
Interval(s, e) ==
    [start |-> s, end |-> e,
     duration |-> IF s # None /\ s < e THEN e - s ELSE None]

IntervalLists ==
    SeqsUpTo({Interval(s, e) : s \in Times \cup {None}, e \in Times}, MaxIntervals)

InitPlan ==
    /\ listing = OneFile
    /\ preset = "tiktok"
    /\ idx = 1
    /\ pc = "remove"
    /\ silence_info \in IntervalLists
    /\ stderr = <<>>
    /\ silence_starts = <<>>
    /\ silence_ends = <<>>
    /\ k = 0
    /\ last_end = 0
    /\ segment_count = 0
    /\ filter_complex = <<>>
    /\ cleaned = <<>>
    /\ cmds = <<>>
    /\ fs = InitialFs(listing)
    /\ exc = "none"
    /\ settings = NoSettings

NextPlan ==
    \/ remove_silence_copy
    \/ remove_silence_begin
    \/ remove_silence_iter
    \/ remove_silence_build
    \/ remove_silence_run

SpecPlan == InitPlan /\ [][NextPlan]_vars

\* ==================================================================
\* Properties of the segment planner (the loop of remove_silence)
\* ==================================================================

\* The segments of a graph: the time range of each video trim, in order.
RECURSIVE Segments(_)
Segments(graph) ==
    IF graph = <<>> THEN <<>>
    ELSE IF Head(graph).op = "trim"
         THEN <<[start |-> Head(graph).start, end |-> Head(graph).end]>>
              \o Segments(Tail(graph))
         ELSE Segments(Tail(graph))

\* The end of the file timeline, later than every time of the model.
EndOfStream == MaxTime + 1

\* The data-model invariant of an interval list: ends non-decreasing, and
\* start < end where the start is present.  A silence has a positive length,
\* so it ends after time 0 also when its start is absent.
EndsNonDecreasing(info) ==
    \A i \in 1..Len(info) - 1 : info[i].end <= info[i + 1].end

DataModelOK(info) ==
    /\ EndsNonDecreasing(info)
    /\ \A i \in 1..Len(info) : 0 < info[i].end
    /\ \A i \in 1..Len(info) : info[i].start # None => info[i].start < info[i].end

\* A list in detection order: besides the data-model invariant, a known
\* start is not earlier than the end of the interval before it.
InDetectionOrder(info) ==
    /\ DataModelOK(info)
    /\ \A i \in 2..Len(info) : info[i].start # None => info[i - 1].end <= info[i].start

\* Scenario C of the specification.
ScenarioC == << Interval(None, 1), Interval(3, 5) >>

\* C1: an interval whose start is absent emits no segment and still advances
\* the cursor to its end: Scenario C plans exactly [(1,3), (5,end-of-stream)],
\* and for any list the cursor stands at interval i's end once interval i has
\* been passed, so at the end of the pass it stands at the last interval's end.
C1_AbsentStartAdvancesCursor ==
    /\ (pc = "run" /\ silence_info = ScenarioC)
          => Segments(filter_complex) =
                << [start |-> 1, end |-> 3], [start |-> 5, end |-> None] >>
    /\ (pc = "run" /\ silence_info # <<>>)
          => last_end = silence_info[Len(silence_info)].end

\* C2: for a list satisfying the data-model invariant, the emitted segments
\* are in time order and do not overlap: each segment starts at or after the
\* end of the segment emitted before it.
C2_SegmentsOrdered ==
    (pc = "run" /\ DataModelOK(silence_info))
        => LET segs == Segments(filter_complex)
           IN \A i \in 2..Len(segs) :
                 /\ segs[i - 1].end # None
                 /\ segs[i - 1].end <= segs[i].start

\* The unit instant [t, t+1) lies in segment g / in a silence interval with
\* a known start.
InSegment(t, g) == g.start <= t /\ (g.end = None \/ t < g.end)
SegmentsHolding(t, segs) == {i \in 1..Len(segs) : InSegment(t, segs[i])}
InKnownSilence(t, info) ==
    \E i \in 1..Len(info) :
        info[i].start # None /\ info[i].start <= t /\ t < info[i].end

\* C3: every instant of the timeline lies in exactly one of an emitted
\* segment or a silence interval with a known start.  Stated here for lists
\* in detection order only, which the claim covers.
C3_CoverageExactlyOnce ==
    (pc = "run" /\ InDetectionOrder(silence_info))
        => LET segs == Segments(filter_complex)
           IN \A t \in 0..EndOfStream - 1 :
                 IF InKnownSilence(t, silence_info)
                 THEN SegmentsHolding(t, segs) = {}
                 ELSE Cardinality(SegmentsHolding(t, segs)) = 1

\* C4: the cursor starts at 0 and never decreases from one loop iteration
\* to the next, for every list whose end values are non-decreasing.
C4_CursorMonotone ==
    [][ EndsNonDecreasing(silence_info) =>
          /\ (pc = "remove" /\ pc' = "loop") => last_end' = 0
          /\ (pc = "loop" /\ pc' \in {"loop", "run"}) => last_end <= last_end' ]_vars

\* Two iterations have run and the cursor has moved twice.
C4_Witness ==
    /\ pc = "run"
    /\ k = 3
    /\ 0 < silence_info[1].end
    /\ silence_info[1].end < silence_info[2].end
    /\ last_end = silence_info[2].end

\* C9: in a built graph the last segment is open-ended and every earlier one
\* has a finite end, so the plan holds at least one segment; the same holds
\* of the audio trims.
OpenEndedLast(trims) ==
    /\ Len(trims) >= 1
    /\ trims[Len(trims)].end = None
    /\ \A i \in 1..Len(trims) - 1 : trims[i].end # None

C9_TrailingSegmentOpenEnded ==
    pc = "run" =>
        /\ OpenEndedLast(Segments(filter_complex))
        /\ OpenEndedLast(SelectSeq(filter_complex, LAMBDA n : n.op = "atrim"))
        /\ Segments(filter_complex)[Len(Segments(filter_complex))].start = last_end

\* A graph of three segments: two bounded ones from the loop, then the
\* trailing one.
C9_Witness ==
    /\ pc = "run"
    /\ Len(Segments(filter_complex)) = 3
    /\ segment_count = 2

\* ==================================================================
\* Properties of the parser (detect_silence)
\* ==================================================================

\* The positions of the markers of a kind whose value can be extracted, and
\* the i-th of them in order of appearance.
Extractable(kind, text) ==
    {p \in 1..Len(text) : text[p].kind = kind /\ text[p].tok # NoMatch}
NthExtractable(kind, text, i) ==
    CHOOSE p \in Extractable(kind, text) :
        Cardinality({q \in Extractable(kind, text) : q < p}) = i - 1
NumStarts == Cardinality(Extractable("silence_start", stderr))
NumEnds == Cardinality(Extractable("silence_end", stderr))
NumDurs == Cardinality(Extractable("silence_duration", stderr))

\* detect_silence has returned (the report is the next step).
Returned == pc = "report"

\* The start and end markers of a text, in order of appearance.
StartEndMarkers(text) ==
    SelectSeq(text, LAMBDA m : m.kind \in {"silence_start", "silence_end"})

\* A text whose markers are in chronological order, some start markers
\* possibly missing or with a value that cannot be extracted: every end value
\* and every duration value is a number, a duration follows its end, no two
\* start markers follow each other, and the numbers of the start and end
\* markers, read in order, are those of silences that follow one another
\* (start < end of the same silence, end <= start of the next, and
\* end < end across a missing start).
Chronological(text) ==
    LET se == StartEndMarkers(text)
        known == SelectSeq(se, LAMBDA m : m.tok # NoMatch)
    IN /\ \A p \in 1..Len(text) :
             /\ text[p].tok # BadFloat
             /\ text[p].kind # "silence_start" => text[p].tok # NoMatch
             /\ text[p].kind = "silence_duration" =>
                    p > 1 /\ text[p - 1].kind = "silence_end"
             /\ text[p].kind = "silence_end" => text[p].tok > 0
       /\ \A p \in 1..Len(se) - 1 :
             ~(se[p].kind = "silence_start" /\ se[p + 1].kind = "silence_start")
       /\ \A p \in 1..Len(known) - 1 :
             IF known[p].kind = "silence_end" /\ known[p + 1].kind = "silence_start"
             THEN known[p].tok <= known[p + 1].tok
             ELSE known[p].tok < known[p + 1].tok

\* C5: for a text in chronological order, start markers possibly missing or
\* unextractable, the returned list has non-decreasing ends and start < end
\* wherever the start is present.
C5_ParsedListWellFormed ==
    (Returned /\ Chronological(stderr))
        => /\ EndsNonDecreasing(silence_info)
           /\ \A i \in 1..Len(silence_info) :
                 silence_info[i].start # None
                     => silence_info[i].start < silence_info[i].end

\* C6: with k start values and n > k end values, intervals 1..n-k have an
\* absent start and interval n-k+j carries the j-th start value.  Stated
\* here only for texts in chronological order in which it is the first
\* silence whose start marker is missing (silence from time 0), which the
\* claim covers.
C6_EarliestStartsAbsent ==
    (/\ Returned
     /\ Chronological(stderr)
     /\ NumStarts < NumEnds
     /\ StartEndMarkers(stderr)[1].kind = "silence_end")
        => \A i \in 1..NumEnds :
              IF i <= NumEnds - NumStarts
              THEN silence_info[i].start = None
              ELSE silence_info[i].start =
                     stderr[NthExtractable("silence_start", stderr,
                                           i - (NumEnds - NumStarts))].tok

\* C7: one interval per extracted end marker, in order of appearance;
\* interval i carries the i-th end value and the i-th duration value, the
\* duration absent when there are fewer durations than ends; start markers
\* beyond the number of end markers produce no interval.
C7_OneIntervalPerEnd ==
    Returned =>
        /\ Len(silence_info) = NumEnds
        /\ \A i \in 1..Len(silence_info) :
              /\ silence_info[i].end =
                    stderr[NthExtractable("silence_end", stderr, i)].tok
              /\ silence_info[i].duration =
                    IF i <= NumDurs
                    THEN stderr[NthExtractable("silence_duration", stderr, i)].tok
                    ELSE None

\* More start markers than end markers, fewer durations than ends: one
\* interval, without a duration.
C7_Witness ==
    /\ Returned
    /\ NumStarts = 2
    /\ NumEnds = 1
    /\ NumDurs = 0
    /\ Len(silence_info) = 1
    /\ silence_info[1].duration = None

\* C8: the parser fails with a ParseError exactly when the text holds
\* silence markers from which no numeric value can be extracted; such a text
\* is never returned as an empty list.
NothingExtractable == NumStarts = 0 /\ NumEnds = 0 /\ NumDurs = 0

C8_ParseErrorOnMalformed ==
    /\ (pc \in {"report", "crashed"} /\ stderr # <<>> /\ NothingExtractable)
          => (pc = "crashed" /\ exc = "ParseError")
    /\ exc = "ParseError" => (stderr # <<>> /\ NothingExtractable)

\* ==================================================================
\* Properties of process_video
\* ==================================================================

\* The commands of the pass run for the file at path p and its products.
StageCmds(stage) == SelectSeq(cmds, LAMBDA c : c.stage = stage)

\* C10: an empty interval list is not an error: remove_silence runs no
\* graph, copies the source to the intermediate path (the copy holds what
\* the source holds when cp reports success) and returns that path, and
\* stage 2 then runs on that path.
C10_EmptyListPassThrough ==
    /\ (pc = "encode" /\ silence_info = <<>>)
          => /\ exc = "none"
             /\ StageCmds("graph") = <<>>
             /\ cmds[Len(cmds)].tool = "cp"
             /\ cmds[Len(cmds)].input = listing[idx].name
             /\ cmds[Len(cmds)].output =
                    <<listing[idx].name[1], "_removed_silence", listing[idx].name[2]>>
             /\ cleaned = cmds[Len(cmds)].output
             /\ cmds[Len(cmds)].rc = "ok"
                   => /\ cleaned \in DOMAIN fs
                      /\ fs[cleaned] = fs[listing[idx].name]
    /\ pc \in {"loop", "run"} => silence_info # <<>>
    /\ \A i \in 2..Len(cmds) :
          (cmds[i].stage = "encode" /\ cmds[i - 1].stage = "copy")
              => cmds[i].input = cmds[i - 1].output

\* No silence was found, the source was copied, and stage 2 has encoded the
\* copy: the final file derives from the original source.
C10_Witness ==
    /\ pc = "for"
    /\ idx = 2
    /\ Len(cmds) = 3
    /\ cmds[2].stage = "copy" /\ cmds[2].rc = "ok"
    /\ cmds[3].stage = "encode" /\ cmds[3].rc = "ok"
    /\ cmds[3].input = <<"a", "_removed_silence", ".mp4">>
    /\ cmds[3].output \in DOMAIN fs
    /\ fs[cmds[3].output] = Content(<<"a", ".mp4">>, "encoded")

\* ==================================================================
\* Properties of the filter graph (remove_silence)
\* ==================================================================

\* The operations of a graph of one kind, and those writing one label.
OpsOf(graph, op) == SelectSeq(graph, LAMBDA n : n.op = op)
ConcatsTo(graph, out) ==
    SelectSeq(graph, LAMBDA n : n.op = "concat" /\ n.out = out)
Producers(graph, label) == {p \in 1..Len(graph) : graph[p].out = label}
\* The places (operation, operand position) where a concat reads a label.
Consumers(graph, label) ==
    {pq \in (1..Len(graph)) \X (1..Len(graph)) :
        /\ graph[pq[1]].op = "concat"
        /\ pq[2] <= Len(graph[pq[1]].ins)
        /\ graph[pq[1]].ins[pq[2]] = label}

\* The graph is complete: remove_silence is about to run it.
GraphBuilt == pc = "run"

\* C11: a graph of N segments holds exactly N video trims, N audio trims,
\* one video concat and one audio concat, each concat with operand count N
\* and N operands listed; N is segment_count + 1.
C11_GraphShape ==
    GraphBuilt =>
        LET N == segment_count + 1
        IN /\ Len(Segments(filter_complex)) = N
           /\ Len(OpsOf(filter_complex, "trim")) = N
           /\ Len(OpsOf(filter_complex, "atrim")) = N
           /\ Len(OpsOf(filter_complex, "concat")) = 2
           /\ \A out \in {<<"outv", 0>>, <<"outa", 0>>} :
                 /\ Len(ConcatsTo(filter_complex, out)) = 1
                 /\ ConcatsTo(filter_complex, out)[1].n = N
                 /\ Len(ConcatsTo(filter_complex, out)[1].ins) = N
           /\ Len(filter_complex) = 2 * N + 2

\* A graph of three segments.
C11_Witness ==
    /\ GraphBuilt
    /\ segment_count = 2
    /\ Len(OpsOf(filter_complex, "trim")) = 3
    /\ ConcatsTo(filter_complex, <<"outv", 0>>)[1].n = 3

\* C12 as claimed: whenever planning yields one segment, stage 1 takes the
\* pass-through path, so no graph whose concats have a single operand is
\* built for the engine.
C12_NoSingleOperandConcat ==
    GraphBuilt =>
        \A p \in 1..Len(filter_complex) :
            filter_complex[p].op = "concat" => filter_complex[p].n >= 2

\* C12 as amended: stage 1 takes the pass-through path exactly when the
\* interval list is empty; every non-empty list goes to the engine as a
\* graph, and that graph has single-operand concats exactly when the loop
\* emitted no segment.
C12_PassThroughIffEmpty ==
    /\ GraphBuilt => silence_info # <<>>
    /\ pc = "encode" =>
          /\ cmds[Len(cmds)].stage = "copy" <=> silence_info = <<>>
          /\ cmds[Len(cmds)].stage = "graph" <=> silence_info # <<>>
          /\ cmds[Len(cmds)].stage = "graph" =>
                \A p \in 1..Len(cmds[Len(cmds)].arg.graph) :
                    LET node == cmds[Len(cmds)].arg.graph[p]
                    IN node.op = "concat" =>
                          (node.n = 1 <=> segment_count = 0)

\* A list whose only interval starts at time 0 has gone to the engine as a
\* graph of one segment.
C12_Witness ==
    /\ pc = "encode"
    /\ Len(silence_info) = 1
    /\ silence_info[1].start = 0
    /\ cmds[Len(cmds)].stage = "graph"
    /\ cmds[Len(cmds)].rc = "ok"
    /\ Len(Segments(cmds[Len(cmds)].arg.graph)) = 1
    /\ ConcatsTo(cmds[Len(cmds)].arg.graph, <<"outv", 0>>)[1].n = 1

\* C13: every label v0..v(N-1), a0..a(N-1) is written by exactly one trim
\* and read by exactly one concat; outv and outa are each written once and
\* mapped to the output once; no concat reads a label nothing writes, and
\* nothing else is written.
C13_LabelsOnceEach ==
    GraphBuilt =>
        LET N == Len(Segments(filter_complex))
            Inner == {<<c, i>> : c \in {"v", "a"}, i \in 0..N - 1}
            Terminal == {<<"outv", 0>>, <<"outa", 0>>}
        IN /\ \A l \in Inner :
                 /\ Cardinality(Producers(filter_complex, l)) = 1
                 /\ \A p \in Producers(filter_complex, l) :
                       filter_complex[p].op \in {"trim", "atrim"}
                 /\ Cardinality(Consumers(filter_complex, l)) = 1
           /\ \A l \in Terminal :
                 /\ Cardinality(Producers(filter_complex, l)) = 1
                 /\ Cardinality({q \in 1..Len(OutputMaps) : OutputMaps[q] = l}) = 1
                 /\ Consumers(filter_complex, l) = {}
           /\ \A p \in 1..Len(filter_complex) :
                 /\ filter_complex[p].out \in Inner \cup Terminal
                 /\ \A q \in 1..Len(filter_complex[p].ins) :
                       Producers(filter_complex, filter_complex[p].ins[q]) # {}
           /\ \A q \in 1..Len(OutputMaps) : OutputMaps[q] \in Terminal

\* A graph of two segments: four inner labels, each written and read once.
C13_Witness ==
    /\ GraphBuilt
    /\ Len(Segments(filter_complex)) = 2
    /\ Consumers(filter_complex, <<"a", 1>>) # {}

\* C14: for every index i the video trim writing v<i> and the audio trim
\* writing a<i> have the same start and the same end (or both none), each
\* carries its timestamp reset, and every video trim has its audio trim.
C14_PairedTrims ==
    LET vt == OpsOf(filter_complex, "trim")
        at == OpsOf(filter_complex, "atrim")
    IN pc \in {"loop", "run"} =>
          /\ Len(vt) = Len(at)
          /\ \A i \in 1..Len(vt) :
                /\ vt[i].out = <<"v", i - 1>>
                /\ at[i].out = <<"a", i - 1>>
                /\ vt[i].start = at[i].start
                /\ vt[i].end = at[i].end
                /\ vt[i].reset = "setpts"
                /\ at[i].reset = "asetpts"
                /\ vt[i].src = <<"0:v", 0>>
                /\ at[i].src = <<"0:a", 0>>
          /\ \A p \in 1..Len(filter_complex) :
                filter_complex[p].op = "trim" =>
                    /\ p < Len(filter_complex)
                    /\ filter_complex[p + 1].op = "atrim"
                    /\ filter_complex[p + 1].out[2] = filter_complex[p].out[2]

\* A bounded pair and the open-ended pair.
C14_Witness ==
    /\ GraphBuilt
    /\ Len(OpsOf(filter_complex, "atrim")) = 2
    /\ OpsOf(filter_complex, "atrim")[1].end # None
    /\ OpsOf(filter_complex, "atrim")[2].end = None

\* ==================================================================
\* Properties of reencode_video
\* ==================================================================

\* The names the if/elif chain of reencode_video knows.
RegisteredPresets == {"highest", "youtube", "facebook", "instagram"}

\* The preset name a stage-2 command was built for, read off its output path.
PresetOf(c) == c.output[Len(c.output) - 1]

\* C15: for a preset name outside {highest, youtube, facebook, instagram}
\* the settings handed to the engine are the base record in every field
\* (crf 20, scale 1080:1920, preset slow, pix_fmt yuv420p, audio bitrate
\* 128k, timescale 30000), and the lookup raises nothing: once stage 1 has
\* returned a path, stage 2 is invoked on it.
C15_UnknownPresetIsBase ==
    /\ \A i \in 1..Len(cmds) :
          (cmds[i].stage = "encode" /\ preset \notin RegisteredPresets)
              => cmds[i].arg =
                    [crf |-> "20", scale |-> "1080:1920", preset |-> "slow",
                     pix_fmt |-> "yuv420p", bitrate_audio |-> "128k",
                     timescale |-> "30000"]
    /\ (preset \notin RegisteredPresets /\ pc \in {"for", "crashed"}
         /\ \E i \in 1..Len(cmds) :
               /\ cmds[i].stage \in {"copy", "graph"}
               /\ cmds[i].rc = "ok"
                     \/ (cmds[i].stage = "copy" /\ cmds[i].rc = "fail"))
          => /\ cmds[Len(cmds)].stage = "encode"
             /\ exc \in {"none", "FileNotFoundError"}
             /\ exc = "FileNotFoundError" <=> cmds[Len(cmds)].rc = "oserror"

\* Stage 2 has run with a name the chain does not know.
C15_Witness ==
    /\ preset = "other"
    /\ pc = "for"
    /\ cmds # <<>>
    /\ cmds[Len(cmds)].stage = "encode"
    /\ cmds[Len(cmds)].rc = "ok"
    /\ cmds[Len(cmds)].arg.crf = "20"

\* The fields each known name updates, and the values it gives them.
Overrides ==
    [highest |-> [crf |-> "18", preset |-> "veryslow", timescale |-> "90000"],
     youtube |-> [scale |-> "1920:1080", crf |-> "21"],
     facebook |-> [crf |-> "22", scale |-> "1080:1350"],
     instagram |-> [scale |-> "1080:1350", crf |-> "21"]]

\* C16: for each of the four known names the settings handed to the engine
\* have the base record's value in every field the name does not update
\* and the name's own value in every field it updates, and they have the
\* fields of the base record and no other.
C16_RegisteredPresetMerged ==
    \A i \in 1..Len(cmds) :
        (cmds[i].stage = "encode" /\ preset \in RegisteredPresets)
            => /\ DOMAIN cmds[i].arg = DOMAIN BaseSettings
               /\ DOMAIN Overrides[preset] \subseteq DOMAIN BaseSettings
               /\ \A f \in DOMAIN BaseSettings :
                     cmds[i].arg[f] =
                        IF f \in DOMAIN Overrides[preset]
                        THEN Overrides[preset][f]
                        ELSE BaseSettings[f]

\* Stage 2 has run for "highest": crf is the preset's, scale is the base's.
C16_Witness ==
    /\ preset = "highest"
    /\ cmds # <<>>
    /\ cmds[Len(cmds)].stage = "encode"
    /\ cmds[Len(cmds)].arg.crf = "18"
    /\ cmds[Len(cmds)].arg.scale = "1080:1920"

\* C17: whatever calls of reencode_video came before and whatever names
\* they were given, the settings a call hands to the engine are those a
\* first call with the same name resolves: no update made for one call
\* shows in a later one.
C17_ResolutionLeavesRegistry ==
    \A i \in 1..Len(cmds) :
        cmds[i].stage = "encode"
            => cmds[i].arg = Resolve(NoSettings, PresetOf(cmds[i]))

\* A call for "highest" is followed by a call for a name the chain does not
\* know, which gets the base crf and timescale back.
C17_Witness ==
    /\ Len(cmds) = 2
    /\ PresetOf(cmds[1]) = "highest"
    /\ cmds[1].arg.crf = "18"
    /\ PresetOf(cmds[2]) = "other"
    /\ cmds[2].arg.crf = "20"
    /\ cmds[2].arg.timescale = "30000"

\* The stage-2 command of the pass that succeeded, if there is one.
Encoded(c) == c.stage = "encode" /\ c.rc = "ok"

\* C18 as stated: the final output is <source-stem>_<preset>.<container>,
\* the stem being that of the original source file.
C18_StemPresetContainer ==
    \A i \in 1..Len(cmds) :
        Encoded(cmds[i])
            => \E e \in Extensions :
                  cmds[i].output = <<listing[1].name[1], "_", preset, e>>

\* C18: the final output of process_video is
\* <source-stem>_removed_silence_<preset>.mp4: the stem is that of the
\* intermediate file, and the extension is .mp4 whatever the source's is.
C18_FinalOutputPath ==
    \A i \in 1..Len(cmds) :
        Encoded(cmds[i])
            => /\ cmds[i].output =
                    <<listing[1].name[1], "_removed_silence", "_", preset, ".mp4">>
               /\ cmds[i].output \in DOMAIN fs
               /\ fs[cmds[i].output] = Content(listing[1].name, "encoded")

\* A .MOV source has been encoded for youtube.
C18_Witness ==
    /\ listing[1].name = <<"b", ".MOV">>
    /\ preset = "youtube"
    /\ pc = "for"
    /\ cmds # <<>>
    /\ Encoded(cmds[Len(cmds)])
    /\ <<"b", "_removed_silence", "_", "youtube", ".mp4">> \in DOMAIN fs

\* ==================================================================
\* Properties of process_folder
\* ==================================================================

\* The commands run for the listing's i-th entry: on the source itself or
\* on its intermediate file.
CmdsFor(i) ==
    SelectSeq(cmds, LAMBDA c :
        c.input \in {listing[i].name,
                     <<listing[i].name[1], "_removed_silence", listing[i].name[2]>>})

\* The engine returned a failure status to a checked invocation for entry i.
EngineFailed(i) ==
    \E j \in 1..Len(CmdsFor(i)) :
        /\ CmdsFor(i)[j].stage \in {"graph", "encode"}
        /\ CmdsFor(i)[j].rc = "fail"

\* The path of the final output of entry i.
FinalOutput(i) == <<listing[i].name[1], "_removed_silence", "_", preset, ".mp4">>

\* C19: a failure status of the engine in stage 1 or stage 2 of one file
\* ends that file only. Every eligible entry the loop has passed had its
\* pipeline started; it has no final output if the engine failed on it and
\* has its final encoded output otherwise; a failure status never ends the
\* pass, which returns only after the last entry.
C19_FailureSkipsOnlyThatFile ==
    /\ \A i \in 1..Len(listing) :
          (i < idx /\ Eligible(listing[i]))
              => /\ CmdsFor(i) # <<>>
                 /\ CmdsFor(i)[1].stage = "silencedetect"
                 /\ EngineFailed(i) => FinalOutput(i) \notin DOMAIN fs
                 /\ ~EngineFailed(i)
                       => /\ FinalOutput(i) \in DOMAIN fs
                          /\ fs[FinalOutput(i)] = Content(listing[i].name, "encoded")
    /\ pc = "done" => idx = Len(listing) + 1
    /\ pc = "crashed"
          => /\ cmds # <<>>
             /\ exc = "ValueError" \/ cmds[Len(cmds)].rc = "oserror"

\* The pass is over: the engine failed on the first of two eligible files
\* and the second one has its final output.
C19_Witness ==
    /\ pc = "done"
    /\ Len(listing) = 2
    /\ Eligible(listing[1]) /\ Eligible(listing[2])
    /\ EngineFailed(1)
    /\ FinalOutput(1) \notin DOMAIN fs
    /\ ~EngineFailed(2)
    /\ FinalOutput(2) \in DOMAIN fs

\* C20 as stated: no error raised while one file is processed leaves
\* process_folder; the pass goes on to the remaining entries.
C20_NoErrorLeavesTheLoop ==
    /\ pc # "crashed"
    /\ exc = "none"

\* ==================================================================
\* Properties of the stage sequence
\* ==================================================================

\* C21 as stated: after a stage of a file has failed no later stage is run
\* for that file. A silence detection that returned a failure status is
\* followed by no copy, graph or encode invocation, and a stage 1 (graph
\* run or pass-through copy) that returned one is followed by no encode.
C21_NoStageAfterFailure ==
    \A i, j \in 1..Len(cmds) :
        (i < j /\ cmds[i].rc = "fail")
            => /\ cmds[i].stage = "silencedetect"
                     => cmds[j].stage \notin {"copy", "graph", "encode"}
               /\ cmds[i].stage \in {"copy", "graph"}
                     => cmds[j].stage # "encode"

\* The place of an invocation in the pipeline of one file: detection, then
\* stage 1 (the graph run, or the copy that stands for it), then stage 2.
StageRank(stage) ==
    IF stage = "silencedetect" THEN 1
    ELSE IF stage \in {"copy", "graph"} THEN 2
    ELSE 3

StagesOf(i) == LET cs == CmdsFor(i) IN [j \in 1..Len(cs) |-> cs[j].stage]

\* ENCODED: the last invocation for entry i is a stage 2 that succeeded.
FileEncoded(i) ==
    LET cs == CmdsFor(i)
    IN /\ cs # <<>>
       /\ cs[Len(cs)].stage = "encode"
       /\ cs[Len(cs)].rc = "ok"
       /\ FinalOutput(i) \in DOMAIN fs

\* FAILED: the last invocation for entry i did not succeed, or its
\* diagnostic text could not be converted.
FileFailed(i) ==
    LET cs == CmdsFor(i)
    IN /\ cs # <<>>
       /\ \/ cs[Len(cs)].rc \in {"fail", "oserror"}
          \/ (pc = "crashed" /\ idx = i /\ exc = "ValueError")

\* C22: in a batch pass the invocations of each file come in the order
\* detection, stage 1, stage 2, each at most once, with planning and graph
\* building between detection and stage 1; an entry the loop has passed is
\* in exactly one of ENCODED and FAILED and nothing more is run for it;
\* and nothing is run for an entry before the loop has reached it.
C22_StagesInOrderOnce ==
    /\ [](/\ \A i \in 1..Len(listing) :
               /\ LET st == StagesOf(i)
                  IN /\ \A a, b \in 1..Len(st) :
                           a < b => StageRank(st[a]) < StageRank(st[b])
                     /\ st # <<>> => st[1] = "silencedetect"
                     /\ i > idx => st = <<>>
                     /\ (i < idx /\ ~Eligible(listing[i])) => st = <<>>
               /\ (i < idx /\ Eligible(listing[i]))
                     => (FileEncoded(i) /\ ~FileFailed(i))
                           \/ (FileFailed(i) /\ ~FileEncoded(i))
               /\ (i = idx /\ pc = "crashed")
                     => FileFailed(i) /\ ~FileEncoded(i)
          /\ pc \in {"for", "detect"} /\ idx <= Len(listing)
                => CmdsFor(idx) = <<>>
          /\ pc \in {"report", "remove", "loop", "run"}
                => StagesOf(idx) = <<"silencedetect">>
          /\ pc = "encode"
                => Len(StagesOf(idx)) = 2 /\ StageRank(StagesOf(idx)[2]) = 2)
    /\ [][\A i \in 1..Len(listing) :
             (i < idx \/ pc = "crashed")
                 => /\ CmdsFor(i)' = CmdsFor(i)
                    /\ FileEncoded(i)' = FileEncoded(i)
                    /\ FileFailed(i)' = FileFailed(i)]_vars

\* The pass is over: the first of two files went through detection, graph
\* run and encode and is ENCODED, the second failed in stage 2.
C22_Witness ==
    /\ pc = "done"
    /\ Len(listing) = 2
    /\ StagesOf(1) = <<"silencedetect", "graph", "encode">>
    /\ FileEncoded(1)
    /\ StagesOf(2) = <<"silencedetect", "copy", "encode">>
    /\ FileFailed(2)
    /\ CmdsFor(2)[3].rc = "fail"

\* C23: the graph and the settings handed to the engine for a file are a
\* function of that file's interval list and of the preset name alone:
\* whatever files the pass handled before and however they ended, the
\* graph run gets the graph of the file's own list and the encode run gets
\* the settings of the preset.
C23_NoCrossFileState ==
    [][cmds' # cmds
          => /\ cmds'[Len(cmds')].stage = "graph"
                   => cmds'[Len(cmds')].arg =
                         [graph |-> GraphOf(silence_info), maps |-> OutputMaps]
             /\ cmds'[Len(cmds')].stage = "encode"
                   => cmds'[Len(cmds')].arg = Settings(preset)]_vars

\* The graph run of the first file failed on a list with silence from
\* time 0; the second file, with silence from 1 to 2, got the graph of its
\* own list.
C23_Witness ==
    /\ Len(listing) = 2
    /\ idx = 2
    /\ pc = "encode"
    /\ Len(StageCmds("graph")) = 2
    /\ StageCmds("graph")[1].rc = "fail"
    /\ Segments(StageCmds("graph")[1].arg.graph) = <<[start |-> 1, end |-> None]>>
    /\ StageCmds("graph")[2].input = listing[2].name
    /\ Segments(StageCmds("graph")[2].arg.graph) =
          <<[start |-> 0, end |-> 1], [start |-> 2, end |-> None]>>

\* ==================================================================
\* Properties of a second pass
\* ==================================================================

\* The invocations of the pass that read path p in the given stages.
RunsOn(p, stages) ==
    SelectSeq(cmds, LAMBDA c : c.input = p /\ c.stage \in stages)

\* C24: nothing looks at the outputs that exist. In a second pass over the
\* folder the source whose intermediate and final files are there from the
\* earlier pass is not passed over: once the loop is past it, detection
\* has run on it, then stage 1, and, unless stage 1 raised, stage 2 on the
\* intermediate path, writing the same final path again.
C24_NoOutputExistenceCheck ==
    /\ {EarlierIntermediate, EarlierFinal} \subseteq DOMAIN fs
    /\ \A i \in 1..Len(listing) :
          (i < idx /\ listing[i].name = SecondPassSource)
              => /\ Len(RunsOn(SecondPassSource, {"silencedetect"})) = 1
                 /\ Len(RunsOn(SecondPassSource, {"copy", "graph"})) = 1
                 /\ LET stage1 == RunsOn(SecondPassSource, {"copy", "graph"})[1]
                    IN ~(stage1.stage = "graph" /\ stage1.rc = "fail")
                          => /\ Len(RunsOn(EarlierIntermediate, {"encode"})) = 1
                             /\ RunsOn(EarlierIntermediate, {"encode"})[1].output
                                   = EarlierFinal

\* The second pass is over and has run all three stages on the source
\* again, with success.
C24_Witness ==
    /\ pc = "done"
    /\ EarlierFinal \in DOMAIN fs
    /\ Len(RunsOn(SecondPassSource, {"silencedetect"})) = 1
    /\ Len(RunsOn(SecondPassSource, {"graph"})) = 1
    /\ RunsOn(SecondPassSource, {"graph"})[1].rc = "ok"
    /\ Len(RunsOn(EarlierIntermediate, {"encode"})) = 1
    /\ RunsOn(EarlierIntermediate, {"encode"})[1].rc = "ok"

\* ==================================================================
\* Further properties of remove_silence
\* ==================================================================

\* C25: one interval with 0 < start < end plans exactly the two segments
\* (0, start) and (end, end-of-stream); the list [{start 2, end 4}] plans
\* (0, 2) and (4, end-of-stream).
C25_SingleIntervalPlan ==
    (GraphBuilt /\ Len(silence_info) = 1
     /\ silence_info[1].start # None
     /\ 0 < silence_info[1].start
     /\ silence_info[1].start < silence_info[1].end)
        => Segments(filter_complex) =
              << [start |-> 0, end |-> silence_info[1].start],
                 [start |-> silence_info[1].end, end |-> None] >>

\* Scenario A of the specification.
C25_Witness ==
    /\ GraphBuilt
    /\ silence_info = << Interval(2, 4) >>
    /\ Segments(filter_complex) =
          << [start |-> 0, end |-> 2], [start |-> 4, end |-> None] >>

\* C26: the video concat lists v0, v1, ..., v(N-1) and the audio concat
\* a0, a1, ..., a(N-1), in ascending index; the k-th pair of trims emitted
\* writes v(k-1) and a(k-1), so the k-th operands of the two concats come
\* from the same segment, the k-th emitted; and for a list with
\* non-decreasing ends the segments begin in source time order.
C26_ConcatInEmissionOrder ==
    GraphBuilt =>
        LET N == Len(Segments(filter_complex))
            vt == OpsOf(filter_complex, "trim")
            at == OpsOf(filter_complex, "atrim")
        IN /\ ConcatsTo(filter_complex, <<"outv", 0>>)[1].ins
                 = [i \in 1..N |-> <<"v", i - 1>>]
           /\ ConcatsTo(filter_complex, <<"outa", 0>>)[1].ins
                 = [i \in 1..N |-> <<"a", i - 1>>]
           /\ \A i \in 1..N :
                 /\ vt[i].out = ConcatsTo(filter_complex, <<"outv", 0>>)[1].ins[i]
                 /\ at[i].out = ConcatsTo(filter_complex, <<"outa", 0>>)[1].ins[i]
                 /\ vt[i].start = Segments(filter_complex)[i].start
                 /\ at[i].start = Segments(filter_complex)[i].start
                 /\ at[i].end = Segments(filter_complex)[i].end
           /\ EndsNonDecreasing(silence_info)
                 => \A i \in 1..N - 1 :
                       Segments(filter_complex)[i].start
                          <= Segments(filter_complex)[i + 1].start

\* Three segments, listed v0 v1 v2 and begun at 0, 2 and 4.
C26_Witness ==
    /\ GraphBuilt
    /\ silence_info = << Interval(1, 2), Interval(3, 4) >>
    /\ ConcatsTo(filter_complex, <<"outv", 0>>)[1].ins
          = << <<"v", 0>>, <<"v", 1>>, <<"v", 2>> >>
    /\ Segments(filter_complex)[3] = [start |-> 4, end |-> None]

\* C27: no trim with an end bound is empty or inverted: its start is
\* strictly before its end, for any interval list; and an iteration whose
\* start is the cursor itself adds nothing to the graph.
C27_NoEmptySegment ==
    /\ [](\A p \in 1..Len(filter_complex) :
             (filter_complex[p].op \in {"trim", "atrim"}
              /\ filter_complex[p].end # None)
                 => filter_complex[p].start < filter_complex[p].end)
    /\ [][(pc = "loop" /\ k <= ZipLen(silence_starts, silence_ends)
           /\ silence_starts[k] = last_end)
             => /\ filter_complex' = filter_complex
                /\ segment_count' = segment_count]_vars

\* Silence from 0 to 1 and, adjacent to it, from 1 to 3: both intervals
\* begin at the cursor and only the trailing segment is there.
C27_Witness ==
    /\ GraphBuilt
    /\ silence_info = << Interval(0, 1), Interval(1, 3) >>
    /\ Segments(filter_complex) = << [start |-> 3, end |-> None] >>

\* ==================================================================
\* Further properties of process_folder
\* ==================================================================

\* The paths process_video was called on, in order: each call begins with
\* the silence detection of its path.
Processed ==
    [j \in 1..Len(StageCmds("silencedetect")) |->
        StageCmds("silencedetect")[j].input]

\* The listed entries that are regular files named .mp4, .mov or .mkv in
\* any case, in listing order.
VideoFiles ==
    SelectSeq(listing, LAMBDA e :
        e.isfile /\ e.name[Len(e.name)] \in {".mp4", ".MOV", ".mkv"})

\* C28: process_video is called on the listed video files in listing
\* order, once each, and on nothing else: never on an entry that is not a
\* regular file or has another extension, never on a file the pass wrote.
\* When the pass ends without a failed stage it has been called on every
\* one of them and has run the three stages of each.
C28_ExactlyTheListedVideos ==
    /\ Len(Processed) <= Len(VideoFiles)
    /\ \A j \in 1..Len(Processed) : Processed[j] = VideoFiles[j].name
    /\ \A j \in 1..Len(Processed) :
          /\ \E i \in 1..Len(listing) : listing[i].name = Processed[j]
          /\ \A q \in DOMAIN fs :
                fs[q].form # "original" => Processed[j] # q
    /\ (pc = "done" /\ \A j \in 1..Len(cmds) : cmds[j].rc = "ok")
          => /\ Len(Processed) = Len(VideoFiles)
             /\ Len(cmds) = 3 * Len(VideoFiles)
             /\ \A i \in 1..Len(listing) :
                   IF listing[i].isfile
                      /\ listing[i].name[Len(listing[i].name)] \in {".mp4", ".MOV", ".mkv"}
                   THEN /\ Len(StagesOf(i)) = 3
                        /\ FileEncoded(i)
                   ELSE CmdsFor(i) = <<>>

\* A pass without failure over b.MOV and a directory named d.mkv: the
\* three stages have run on b.MOV and nothing else has run.
C28_Witness ==
    /\ pc = "done"
    /\ Len(listing) = 2
    /\ \E i \in 1..2 : listing[i].name = <<"b", ".MOV">>
    /\ \E i \in 1..2 : listing[i].name = <<"d", ".mkv">>
    /\ Processed = << <<"b", ".MOV">> >>
    /\ Len(cmds) = 3
    /\ \A j \in 1..3 : cmds[j].rc = "ok"

\* Some invocation of the pass could not be launched.
NotLaunched == \E j \in 1..Len(cmds) : cmds[j].rc = "oserror"

\* C29 as stated: when every invocation returns with a status (none fails
\* to launch), the pass comes to an end, and at its end every eligible
\* entry is ENCODED or FAILED.
C29_PassTerminatesAllFilesSettled ==
    <>(\/ NotLaunched
       \/ /\ pc \in {"done", "crashed"}
          /\ \A i \in 1..Len(listing) :
                Eligible(listing[i]) => FileEncoded(i) \/ FileFailed(i))

\* ==================================================================
\* Properties of main (detect-silence-v2.py)
\* ==================================================================

\* C30: the loop of main has no per-file failure boundary. A graph run
\* that returns a failure status is the last invocation of the run: the
\* CalledProcessError leaves the loop, nothing is detected, reported or
\* trimmed for any entry listed after that file, and no step follows.
C30_MainStopsAtFirstFailure ==
    /\ [](\A j \in 1..Len(cmds) :
             (cmds[j].stage = "graph" /\ cmds[j].rc = "fail")
                 => /\ j = Len(cmds)
                    /\ pc = "crashed"
                    /\ exc = "CalledProcessError"
                    /\ cmds[j].input = listing[idx].name
                    /\ \A i \in 1..Len(listing) :
                          i > idx
                              => /\ CmdsFor(i) = <<>>
                                 /\ ReportPath(listing[i].name) \notin DOMAIN fs
                                 /\ RemovedSilencePath(listing[i].name)
                                       \notin DOMAIN fs)
    /\ [][pc = "crashed" => pc' = "crashed" /\ cmds' = cmds /\ fs' = fs]_vars

\* The graph run of the first of two media files failed and the run is
\* over with the second file untouched.
C30_Witness ==
    /\ pc = "crashed"
    /\ exc = "CalledProcessError"
    /\ Len(listing) = 2
    /\ idx = 1
    /\ listing[2].name = <<"b", ".MOV">>
    /\ cmds[Len(cmds)].stage = "graph"
    /\ cmds[Len(cmds)].rc = "fail"
    /\ CmdsFor(2) = <<>>

====
